---- MODULE Spec2Model ----
(***************************************************************************)
(* Model of the two scripts of dsp_final.srcs/scripts:                     *)
(*   uart_acquisition.py  (uart_acquisition, read_uart, plot_data)         *)
(*   genrom.py            (genrom)                                         *)
(* Each script is a straight-line program; one action per statement (or    *)
(* per loop iteration), the program counter in u_pc / g_pc.                *)
(***************************************************************************)
EXTENDS Integers, Sequences, FiniteSets

VARIABLES
    \* ---- uart_acquisition.py ----
    u_pc,         \* position in uart_acquisition / read_uart
    serial_link,  \* "none" | "open" | "closed"
    now,          \* wall clock, in milliseconds
    written,      \* bytes written to the link, in order
    sent_at,      \* sent_at[i]: clock value at which written[i] was written
    reads,        \* sizes of the read requests issued on the link
    stream,       \* bytes the device delivered before the read timeout
    data,         \* value returned by read_uart
    plot_calls,   \* lengths of the buffers plot_data was invoked with
    plot_arg,     \* buffer passed to the last plot_data invocation
    data_re,      \* plot_data: real parts
    data_im,      \* plot_data: imaginary parts
    spectrum,     \* plot_data: magnitudes, each the square root of the stored radicand
    f,            \* plot_data: frequency axis, in units of 0.5 Hz
    shown,        \* plt.show() has displayed the figure
    printed,      \* lines printed on stdout, in order
    u_exc,        \* exception that ended the run, "" if none
    \* ---- genrom.py ----
    g_pc,             \* position in genrom
    args,             \* parsed command line: [square, sin, sampling_frequency]
    cos_frequency,    \* "unbound" | "fundamental" | "25e6"
    number_harmonics, \* Unbound or the number of harmonics
    m,                \* harmonic indices
    Ve,               \* samples, in units of 1/SampleScale
    file_state,       \* "none" | "open" | "closed"
    rom_file,         \* lines written to the output file
    g_exc             \* exception that ended the run, "" if none

uvars == <<u_pc, serial_link, now, written, sent_at, reads, stream, data,
           plot_calls, plot_arg, data_re, data_im, spectrum, f, shown,
           printed, u_exc>>
gvars == <<g_pc, args, cos_frequency, number_harmonics, m, Ve, file_state,
           rom_file, g_exc>>
vars == <<uvars, gvars>>

(***************************************************************************)
(* Bounds of the model                                                     *)
(***************************************************************************)
\* time.sleep may return up to this many ms late
MaxOversleep == 1
\* the device may deliver up to this many bytes beyond the frame
MaxExtra == 1

(***************************************************************************)
(* Helpers                                                                 *)
(***************************************************************************)
Min(a, b) == IF a <= b THEN a ELSE b

Pow2(n) == 2 ^ n

\* Python's x | y on non-negative integers
RECURSIVE BitOr(_, _)
BitOr(x, y) ==
    IF x = 0 THEN y
    ELSE IF y = 0 THEN x
    ELSE (IF x % 2 = 1 \/ y % 2 = 1 THEN 1 ELSE 0) + 2 * BitOr(x \div 2, y \div 2)

\* Python's x << n
Shl(x, n) == x * Pow2(n)

\* d[i] for a Python bytes/list d (0-based)
At(d, i) == d[i + 1]

(***************************************************************************)
(* uart_acquisition.py                                                     *)
(***************************************************************************)
StartCmd == 90
ReadCmd == 165
SleepMs == 10
FrameBytes == 2048
NumSamples == 512
\* 195.3125e3 Hz, in units of 0.5 Hz
FreqStep == 390625

\* a sleep that guarantees no minimum
SettleDelay_NoMinimum(over) == over

\* time.sleep(0.01): suspends for at least the requested time
SettleDelay(over) == SleepMs + over

\* a read that hands back the newest bytes instead of the oldest
SerialRead_Newest(s, size) == SubSeq(s, Len(s) - Min(size, Len(s)) + 1, Len(s))

\* Serial.read(size): up to size bytes, those that arrived first, in order
SerialRead(s, size) == SubSeq(s, 1, Min(size, Len(s)))

\* a length test that lets every buffer through
LengthOK_AtMost(d) == Len(d) <= FrameBytes

\* line 43: len(data) == 2048
LengthOK(d) == Len(d) = FrameBytes

\* a sign test that is off by one
ToSigned16_OffByOne(raw) == IF raw > 32768 THEN raw - 65536 ELSE raw

\* lines 88-89 / 94-95: two's-complement reinterpretation
ToSigned16(raw) == IF raw > 32767 THEN raw - 65536 ELSE raw

\* a stride of one 16-bit word instead of one complex sample
GroupBase_HalfStride(k) == k * 2

\* index of the first byte of sample k
GroupBase(k) == k * 4

\* lines 87, 93: (hi << 8) | lo
RawRe(d, k) == BitOr(Shl(At(d, GroupBase(k) + 1), 8), At(d, GroupBase(k) + 0))
RawIm(d, k) == BitOr(Shl(At(d, GroupBase(k) + 3), 8), At(d, GroupBase(k) + 2))

\* line 82
FreqAxis == [i \in 0..(NumSamples - 1) |-> FreqStep * i]

\* The device's answers: frames filled with one byte, frames with one
\* distinguished 4-byte group planted at a sample position, and a ramp.
FillBytes == {0, 255}
Groups == {<<255, 255, 0, 128>>, <<255, 127, 1, 0>>, <<0, 128, 254, 255>>}
Positions == {0, 1, NumSamples - 1}
StreamLens == {0, 1, FrameBytes - 1} \cup (FrameBytes..(FrameBytes + MaxExtra))
Planted(n, g, p, b) ==
    [i \in 1..n |-> IF (i - 1) \div 4 = p THEN g[((i - 1) % 4) + 1] ELSE b]
Ramp(n) == [i \in 1..n |-> ((i - 1) * 37 + 11) % 256]
Streams ==
    {Planted(n, g, p, b) : n \in StreamLens, g \in Groups \cup {<<0, 0, 0, 0>>},
                           p \in Positions, b \in FillBytes}
    \cup {Ramp(n) : n \in StreamLens}

UInit ==
    /\ u_pc = "start"
    /\ serial_link = "none"
    /\ now = 0
    /\ written = <<>>
    /\ sent_at = <<>>
    /\ reads = <<>>
    /\ stream = <<>>
    /\ data = <<>>
    /\ plot_calls = <<>>
    /\ plot_arg = <<>>
    /\ data_re = <<>>
    /\ data_im = <<>>
    /\ spectrum = <<>>
    /\ f = <<>>
    /\ shown = FALSE
    /\ printed = <<>>
    /\ u_exc = ""

\* lines 29-36: serial.Serial(...) opens the port or raises
OpenLink ==
    /\ u_pc = "start"
    /\ \E ok \in BOOLEAN :
         IF ok
         THEN /\ serial_link' = "open"
              /\ u_pc' = "banner"
              /\ u_exc' = u_exc
         ELSE /\ serial_link' = serial_link
              /\ u_pc' = "failed"
              /\ u_exc' = "SerialException"
    /\ UNCHANGED <<now, written, sent_at, reads, stream, data, plot_calls,
                   plot_arg, data_re, data_im, spectrum, f, shown, printed>>
    /\ UNCHANGED gvars

\* lines 55-56: read_uart announces the link before it writes anything
PrintBanner ==
    /\ u_pc = "banner"
    /\ printed' = Append(printed, [kind |-> "banner", bytesize |-> 8])
    /\ u_pc' = "write_start"
    /\ UNCHANGED <<serial_link, now, written, sent_at, reads, stream, data,
                   plot_calls, plot_arg, data_re, data_im, spectrum, f, shown,
                   u_exc>>
    /\ UNCHANGED gvars

\* uart_link.write(cmd): the byte goes out, or the write raises and the
\* exception leaves read_uart and uart_acquisition
WriteCmd(at, cmd, next) ==
    /\ u_pc = at
    /\ \E ok \in BOOLEAN :
         IF ok
         THEN /\ written' = Append(written, cmd)
              /\ sent_at' = Append(sent_at, now)
              /\ u_pc' = next
              /\ u_exc' = u_exc
         ELSE /\ written' = written
              /\ sent_at' = sent_at
              /\ u_pc' = "failed"
              /\ u_exc' = "SerialException"
    /\ UNCHANGED <<serial_link, now, reads, stream, data, plot_calls,
                   plot_arg, data_re, data_im, spectrum, f, shown, printed>>
    /\ UNCHANGED gvars

\* line 59
WriteStart == WriteCmd("write_start", StartCmd, "sleep")

\* line 60
Sleep ==
    /\ u_pc = "sleep"
    /\ \E over \in 0..MaxOversleep : now' = now + SettleDelay(over)
    /\ u_pc' = "write_read"
    /\ UNCHANGED <<serial_link, written, sent_at, reads, stream, data,
                   plot_calls, plot_arg, data_re, data_im, spectrum, f, shown,
                   printed, u_exc>>
    /\ UNCHANGED gvars

\* line 61
WriteRead == WriteCmd("write_read", ReadCmd, "read")

\* line 64 and the return to line 39
ReadResponse ==
    /\ u_pc = "read"
    /\ reads' = Append(reads, FrameBytes)
    /\ \E s \in Streams, ok \in BOOLEAN :
         IF ok
         THEN /\ stream' = s
              /\ data' = SerialRead(s, FrameBytes)
              /\ u_pc' = "close"
              /\ u_exc' = u_exc
         ELSE /\ stream' = stream
              /\ data' = data
              /\ u_pc' = "failed"
              /\ u_exc' = "SerialException"
    /\ UNCHANGED <<serial_link, now, written, sent_at, plot_calls, plot_arg,
                   data_re, data_im, spectrum, f, shown, printed>>
    /\ UNCHANGED gvars

\* line 40
CloseLink ==
    /\ u_pc = "close"
    /\ serial_link' = "closed"
    /\ u_pc' = "validate"
    /\ UNCHANGED <<now, written, sent_at, reads, stream, data, plot_calls,
                   plot_arg, data_re, data_im, spectrum, f, shown, printed,
                   u_exc>>
    /\ UNCHANGED gvars

\* lines 43-44 and 66-112: plot_data(data)
PlotData ==
    /\ u_pc = "validate"
    /\ LengthOK(data)
    /\ plot_calls' = Append(plot_calls, Len(data))
    /\ plot_arg' = data
    /\ IF Len(data) >= GroupBase(NumSamples - 1) + 4
       THEN /\ f' = FreqAxis
            /\ data_re' = [k \in 0..(NumSamples - 1) |-> ToSigned16(RawRe(data, k))]
            /\ data_im' = [k \in 0..(NumSamples - 1) |-> ToSigned16(RawIm(data, k))]
            /\ spectrum' = [k \in 0..(NumSamples - 1) |->
                              ToSigned16(RawRe(data, k)) ^ 2
                              + ToSigned16(RawIm(data, k)) ^ 2]
            /\ shown' = TRUE
            /\ u_pc' = "done"
            /\ u_exc' = u_exc
       ELSE \* data_chr[k*4 + ...] runs past the end of the list
            /\ UNCHANGED <<f, data_re, data_im, spectrum, shown>>
            /\ u_pc' = "failed"
            /\ u_exc' = "IndexError"
    /\ UNCHANGED <<serial_link, now, written, sent_at, reads, stream, data,
                   printed>>
    /\ UNCHANGED gvars

\* lines 45-46
ReportError ==
    /\ u_pc = "validate"
    /\ ~LengthOK(data)
    /\ printed' = Append(printed, [kind |-> "error", received |-> Len(data),
                                  expected |-> FrameBytes])
    /\ u_pc' = "done"
    /\ UNCHANGED <<serial_link, now, written, sent_at, reads, stream, data,
                   plot_calls, plot_arg, data_re, data_im, spectrum, f, shown,
                   u_exc>>
    /\ UNCHANGED gvars

(***************************************************************************)
(* Properties of uart_acquisition.py                                       *)
(***************************************************************************)
ReadReturned == u_pc \in {"close", "validate", "done"}
Plotted == plot_calls # <<>> /\ shown
Group(d, k) == <<d[4 * k + 1], d[4 * k + 2], d[4 * k + 3], d[4 * k + 4]>>

ErrorLines == {i \in 1..Len(printed) : printed[i].kind = "error"}

\* C1: 0xA5 is written only after 0x5A has been written and at least 10 ms
\* have passed since; a read is requested only after 0xA5 has been written.
C1_HandshakeOrder ==
    /\ \A i \in 1..Len(written) :
         written[i] = 165 =>
            /\ i > 1
            /\ written[i - 1] = 90
            /\ sent_at[i] - sent_at[i - 1] >= 10
    /\ reads # <<>> => (\E i \in 1..Len(written) : written[i] = 165)

C1_Witness ==
    /\ reads # <<>>
    /\ written = <<90, 165>>
    /\ sent_at[2] - sent_at[1] >= 10

\* C2: a read of a length other than 2048 never reaches plot_data and ends
\* with a diagnostic carrying the received byte count; plot_data is invoked
\* only with buffers of exactly 2048 bytes.
C2_ShortReadNotPlotted ==
    /\ \A i \in 1..Len(plot_calls) : plot_calls[i] = 2048
    /\ (ReadReturned /\ Len(data) # 2048) => (plot_calls = <<>> /\ ~shown)
    /\ (u_pc = "done" /\ Len(data) # 2048) =>
          /\ Cardinality(ErrorLines) = 1
          /\ \A i \in ErrorLines :
                printed[i].received = Len(data) /\ printed[i].expected = 2048
    /\ (u_pc = "done" /\ Len(data) = 2048) => (plot_calls = <<2048>> /\ ErrorLines = {})
    /\ u_pc # "done" => ErrorLines = {}

C2_Witness ==
    /\ u_pc = "done"
    /\ Len(data) = 2047
    /\ \E i \in ErrorLines : printed[i].received = 2047 /\ printed[i].expected = 2048
    /\ plot_calls = <<>>

\* C3: a run that opened the serial link never ends with the link still open.
C3_LinkClosedOnExit ==
    (u_pc \in {"done", "failed"} /\ serial_link # "none") => serial_link = "closed"

\* C5: each 4-byte group decodes to the two's-complement 16-bit values of
\* b0 + 256*b1 and b2 + 256*b3, both in [-32768, 32767], and the squared
\* magnitude is real^2 + imaginary^2; [0xFF,0xFF,0x00,0x80] gives (-1, -32768).
C5_DecodeSigned16 ==
    Plotted =>
      \A k \in 0..511 :
        LET g  == Group(plot_arg, k)
            re == ((g[1] + 256 * g[2] + 32768) % 65536) - 32768
            im == ((g[3] + 256 * g[4] + 32768) % 65536) - 32768
        IN  /\ data_re[k] = re
            /\ data_im[k] = im
            /\ data_re[k] \in -32768..32767
            /\ data_im[k] \in -32768..32767
            /\ spectrum[k] = data_re[k] * data_re[k] + data_im[k] * data_im[k]
            /\ g = <<255, 255, 0, 128>> => (data_re[k] = -1 /\ data_im[k] = -32768)

C5_Witness ==
    /\ Plotted
    /\ Group(plot_arg, 511) = <<255, 255, 0, 128>>
    /\ data_re[511] = -1
    /\ data_im[511] = -32768
    /\ spectrum[511] = 1 + 32768 * 32768

\* C7: a 2048-byte buffer yields exactly 512 points in input order, point k
\* a function of bytes 4k..4k+3 alone (equal groups give equal points,
\* different groups different ones), at frequency k * 195312.5 Hz (here in
\* units of 0.5 Hz); the all-zero buffer yields all-zero points.
C7_PointsPerFrame ==
    Plotted =>
      /\ DOMAIN data_re = 0..511
      /\ DOMAIN data_im = 0..511
      /\ DOMAIN spectrum = 0..511
      /\ DOMAIN f = 0..511
      /\ \A k \in 0..511 : f[k] = k * 390625
      /\ \A k \in 0..511 : \A j \in {0, (k + 1) % 512, 511} :
            (Group(plot_arg, k) = Group(plot_arg, j))
               <=> (data_re[k] = data_re[j] /\ data_im[k] = data_im[j])
      /\ \A k \in 0..511 : \A j \in {0, (k + 1) % 512, 511} :
            (Group(plot_arg, k) = Group(plot_arg, j)) => spectrum[k] = spectrum[j]
      /\ (\A i \in 1..Len(plot_arg) : plot_arg[i] = 0) =>
            \A k \in 0..511 : data_re[k] = 0 /\ data_im[k] = 0 /\ spectrum[k] = 0

C7_Witness ==
    /\ Plotted
    /\ Len(plot_arg) = 2048
    /\ \A i \in 1..2048 : plot_arg[i] = 0
    /\ \A k \in 0..511 : data_re[k] = 0 /\ data_im[k] = 0 /\ spectrum[k] = 0
    /\ f[511] = 511 * 390625

\* C10: once the read has been requested, the bytes written are exactly
\* 0x5A then 0xA5 and exactly one read, of 2048 bytes, has been requested,
\* whatever it returned; nothing is written or read again afterwards, and
\* the bytes returned (and plotted) are the first ones received, in order.
C10_SingleExchange ==
    /\ Len(written) <= 2
    /\ \A i \in 1..Len(written) : written[i] = <<90, 165>>[i]
    /\ Len(reads) <= 1
    /\ reads # <<>> => (written = <<90, 165>> /\ reads = <<2048>>)
    /\ (ReadReturned \/ u_pc = "read" \/ reads # <<>>) => written = <<90, 165>>
    /\ ReadReturned =>
          /\ reads = <<2048>>
          /\ Len(data) = Min(2048, Len(stream))
          /\ \A i \in 1..Len(data) : data[i] = stream[i]
    /\ plot_calls # <<>> => plot_arg = data

C10_Witness ==
    /\ u_pc = "done"
    /\ Len(data) = 1
    /\ written = <<90, 165>>
    /\ reads = <<2048>>
    /\ plot_calls = <<>>

(***************************************************************************)
(* genrom.py                                                               *)
(***************************************************************************)
gain == 80
memory_width == 16
memory_depth == 9
Unbound == -1
\* the float samples Ve are held as int(SampleScale * v)
SampleScale == 4

\* a table one entry short
number_points_OneShort == Pow2(memory_depth) - 1

\* line 51
number_points == Pow2(memory_depth)

\* int(v): truncation toward zero
TruncToInt(v) == IF v >= 0 THEN v \div SampleScale ELSE -((-v) \div SampleScale)

\* int.to_bytes(len, signed=True) raises OverflowError outside this range
Fits(n, len) == -Pow2(8 * len - 1) <= n /\ n < Pow2(8 * len - 1)

\* least significant byte first
ToBytes_Little(n, len) ==
    [j \in 1..len |-> ((n % Pow2(8 * len)) \div Pow2(8 * (j - 1))) % 256]

\* int.to_bytes(len, byteorder='big', signed=True), for n that fits
ToBytes(n, len) ==
    [j \in 1..len |-> ((n % Pow2(8 * len)) \div Pow2(8 * (len - j))) % 256]

HexDigits == <<"0", "1", "2", "3", "4", "5", "6", "7",
               "8", "9", "a", "b", "c", "d", "e", "f">>

\* binascii.hexlify(...).decode('utf-8'): two lowercase digits per byte
Hexlify(bs) ==
    [c \in 1..(2 * Len(bs)) |->
        IF c % 2 = 1 THEN HexDigits[(bs[(c + 1) \div 2] \div 16) + 1]
                     ELSE HexDigits[(bs[c \div 2] % 16) + 1]]

\* lines 97-100: the line written for sample v
RomLine(v) == Hexlify(ToBytes(TruncToInt(v), memory_width \div 8)) \o <<"\n">>

\* lines 76-80: the first n odd numbers
OddHarmonics(n) == [j \in 1..n |-> 2 * j - 1]

\* Lines 85-89 sum (gain / m[j]) * sin(2 pi m[j] cos_frequency t[i]) in floating
\* point, which has no counterpart here: the tables below hold the values
\* those lines produce, each as int(SampleScale * Ve[i]).
\*
\* Square (10 odd harmonics of sampling_frequency / 512): the same table for
\* every sampling frequency; samples 0..128, the rest by the symmetries of
\* the sum, Ve[256 - i] = Ve[i] and Ve[512 - i] = -Ve[i].
SquareQuarter ==
  <<
     0, 39, 77, 114, 148, 180, 209, 233, 254, 270, 282, 291, 295, 296, 294,
     289, 283, 275, 267, 258, 250, 243, 236, 231, 228, 226, 226, 227, 230,
     234, 238, 243, 249, 254, 258, 262, 265, 267, 268, 268, 267, 265, 262,
     259, 255, 251, 248, 244, 242, 239, 238, 237, 238, 239, 240, 243, 245,
     248, 251, 254, 257, 259, 261, 262, 262, 262, 261, 259, 257, 255, 252,
     250, 247, 245, 243, 242, 241, 241, 241, 242, 244, 246, 248, 250, 252,
     255, 256, 258, 259, 260, 260, 259, 258, 257, 255, 253, 251, 249, 247,
     245, 244, 243, 242, 243, 243, 244, 245, 247, 249, 251, 253, 255, 257,
     258, 259, 259, 259, 258, 257, 256, 254, 252, 250, 248, 246, 245, 244,
     243, 243
  >>
SquareSample(i) ==
    IF i <= 128 THEN SquareQuarter[i + 1]
    ELSE IF i <= 256 THEN SquareQuarter[(256 - i) + 1]
    ELSE IF i <= 384 THEN -SquareQuarter[(i - 256) + 1]
    ELSE -SquareQuarter[(512 - i) + 1]

\* Sine (25 MHz tone): one period of the table for each sampling frequency
\* (in MHz) the model runs with.
SinPeriod(sf) ==
    CASE sf = 1 -> <<0>>
      [] sf = 7 -> <<0, -138, 250, -311, 311, -250, 138>>
      [] sf = 100 -> <<0, 320, 0, -320>>
      [] sf = 200 -> <<0, 226, 320, 226, 0, -226, -320, -226>>
SinSample(sf, i) == SinPeriod(sf)[(i % Len(SinPeriod(sf))) + 1]

\* Ve when line 94 is reached
Samples(cf, sf) ==
    [i \in 1..number_points |->
        IF cf = "25e6" THEN SinSample(sf, i - 1) ELSE SquareSample(i - 1)]

\* values of --sampling-frequency the model runs with
SamplingFrequencies == {0, 1, 7, 100, 200}

GInit ==
    /\ g_pc = "start"
    /\ args = [square |-> FALSE, sin |-> FALSE, sampling_frequency |-> 0]
    /\ cos_frequency = "unbound"
    /\ number_harmonics = Unbound
    /\ m = <<>>
    /\ Ve = <<>>
    /\ file_state = "none"
    /\ rom_file = <<>>
    /\ g_exc = ""

\* line 37
ParseArgs ==
    /\ g_pc = "start"
    /\ \E sq \in BOOLEAN, sn \in BOOLEAN, sf \in SamplingFrequencies :
         args' = [square |-> sq, sin |-> sn, sampling_frequency |-> sf]
    /\ g_pc' = "setup"
    /\ UNCHANGED <<cos_frequency, number_harmonics, m, Ve, file_state,
                   rom_file, g_exc>>
    /\ UNCHANGED uvars

\* lines 42-51: 1.0 / sampling_frequency divides by zero for 0 MHz
ParamSetup ==
    /\ g_pc = "setup"
    /\ IF 1000000 * args.sampling_frequency = 0
       THEN g_pc' = "failed" /\ g_exc' = "ZeroDivisionError"
       ELSE g_pc' = "select" /\ g_exc' = g_exc
    /\ UNCHANGED <<args, cos_frequency, number_harmonics, m, Ve, file_state,
                   rom_file>>
    /\ UNCHANGED uvars

\* lines 56-63: two independent ifs, the second overwriting the first
SelectWaveform ==
    /\ g_pc = "select"
    /\ LET cf1 == IF args.square THEN "fundamental" ELSE cos_frequency
           nh1 == IF args.square THEN 10 ELSE number_harmonics
       IN  /\ cos_frequency' = IF args.sin THEN "25e6" ELSE cf1
           /\ number_harmonics' = IF args.sin THEN 1 ELSE nh1
    /\ g_pc' = "vectors"
    /\ UNCHANGED <<args, m, Ve, file_state, rom_file, g_exc>>
    /\ UNCHANGED uvars

\* lines 68-71
InitVectors ==
    /\ g_pc = "vectors"
    /\ Ve' = [i \in 1..number_points |-> 0]
    /\ g_pc' = "harmonics"
    /\ UNCHANGED <<args, cos_frequency, number_harmonics, m, file_state,
                   rom_file, g_exc>>
    /\ UNCHANGED uvars

\* lines 76-80: range(number_harmonics) reads a local that may be unbound
Harmonics ==
    /\ g_pc = "harmonics"
    /\ IF number_harmonics = Unbound
       THEN /\ m' = <<>>
            /\ g_pc' = "failed"
            /\ g_exc' = "UnboundLocalError"
       ELSE /\ m' = OddHarmonics(number_harmonics)
            /\ g_pc' = "compute"
            /\ g_exc' = g_exc
    /\ UNCHANGED <<args, cos_frequency, number_harmonics, Ve, file_state,
                   rom_file>>
    /\ UNCHANGED uvars

\* lines 85-89
Compute ==
    /\ g_pc = "compute"
    /\ Ve' = Samples(cos_frequency, args.sampling_frequency)
    /\ g_pc' = "open"
    /\ UNCHANGED <<args, cos_frequency, number_harmonics, m, file_state,
                   rom_file, g_exc>>
    /\ UNCHANGED uvars

\* line 94
OpenFile ==
    /\ g_pc = "open"
    /\ file_state' = "open"
    /\ rom_file' = <<>>
    /\ g_pc' = "write"
    /\ UNCHANGED <<args, cos_frequency, number_harmonics, m, Ve, g_exc>>
    /\ UNCHANGED uvars

\* lines 95-100, one iteration: the next sample is written, or to_bytes
\* raises and the with-statement closes the file on the way out
WriteLine ==
    /\ g_pc = "write"
    /\ Len(rom_file) < Len(Ve)
    /\ LET v == Ve[Len(rom_file) + 1]
       IN  IF Fits(TruncToInt(v), memory_width \div 8)
           THEN /\ rom_file' = Append(rom_file, RomLine(v))
                /\ UNCHANGED <<file_state, g_pc, g_exc>>
           ELSE /\ rom_file' = rom_file
                /\ file_state' = "closed"
                /\ g_pc' = "failed"
                /\ g_exc' = "OverflowError"
    /\ UNCHANGED <<args, cos_frequency, number_harmonics, m, Ve>>
    /\ UNCHANGED uvars

\* end of the loop and of the with-statement
CloseFile ==
    /\ g_pc = "write"
    /\ Len(rom_file) = Len(Ve)
    /\ file_state' = "closed"
    /\ g_pc' = "done"
    /\ UNCHANGED <<args, cos_frequency, number_harmonics, m, Ve, rom_file, g_exc>>
    /\ UNCHANGED uvars

\* the generator is not running
GIdle ==
    /\ g_pc = "idle"
    /\ args = [square |-> FALSE, sin |-> FALSE, sampling_frequency |-> 0]
    /\ cos_frequency = "unbound"
    /\ number_harmonics = Unbound
    /\ m = <<>>
    /\ Ve = <<>>
    /\ file_state = "none"
    /\ rom_file = <<>>
    /\ g_exc = ""

\* the acquisition tool is not running
UIdle ==
    /\ u_pc = "idle"
    /\ serial_link = "none"
    /\ now = 0
    /\ written = <<>>
    /\ sent_at = <<>>
    /\ reads = <<>>
    /\ stream = <<>>
    /\ data = <<>>
    /\ plot_calls = <<>>
    /\ plot_arg = <<>>
    /\ data_re = <<>>
    /\ data_im = <<>>
    /\ spectrum = <<>>
    /\ f = <<>>
    /\ shown = FALSE
    /\ printed = <<>>
    /\ u_exc = ""


(***************************************************************************)
(* Properties of genrom.py                                                 *)
(***************************************************************************)
\* the integer part of a scaled sample, toward zero
IntPart(v) ==
    LET fl == (v - (v % SampleScale)) \div SampleScale
    IN  IF v < 0 /\ v % SampleScale # 0 THEN fl + 1 ELSE fl
InSigned16(n) == -32768 <= n /\ n <= 32767
HexValue(c) ==
    CASE c = "0" -> 0 [] c = "1" -> 1 [] c = "2" -> 2 [] c = "3" -> 3
      [] c = "4" -> 4 [] c = "5" -> 5 [] c = "6" -> 6 [] c = "7" -> 7
      [] c = "8" -> 8 [] c = "9" -> 9 [] c = "a" -> 10 [] c = "b" -> 11
      [] c = "c" -> 12 [] c = "d" -> 13 [] c = "e" -> 14 [] c = "f" -> 15
\* a line's four hex digits read as a big-endian signed 16-bit integer
DecodeLine(line) ==
    LET u == 4096 * HexValue(line[1]) + 256 * HexValue(line[2])
             + 16 * HexValue(line[3]) + HexValue(line[4])
    IN  IF u >= 32768 THEN u - 65536 ELSE u
WellFormedLine(line) ==
    /\ Len(line) = 5
    /\ line[5] = "\n"
    /\ \A c \in 1..4 :
         line[c] \in {"0", "1", "2", "3", "4", "5", "6", "7",
                      "8", "9", "a", "b", "c", "d", "e", "f"}

\* C4: generation and the output file happen only when exactly one of
\* --square / --sin is given; a missing or double selection ends in an error
\* with no samples generated and no file written.
C4_RejectsBadSelection ==
    (g_pc \notin {"start", "idle"} /\ args.square = args.sin) =>
        /\ g_pc \notin {"open", "write", "done"}
        /\ file_state = "none"
        /\ rom_file = <<>>

\* C6: every line written for a sample whose integer part lies in
\* [-32768, 32767] (every sample the generator produces does) decodes, as a
\* big-endian signed 16-bit integer, to that integer part.
C6_HexRoundTrip ==
    \A i \in 1..Len(rom_file) :
        InSigned16(IntPart(Ve[i])) => DecodeLine(rom_file[i]) = IntPart(Ve[i])

C6_Witness ==
    /\ g_pc = "done"
    /\ \E i \in 1..Len(rom_file) :
          Ve[i] = -311 /\ IntPart(Ve[i]) = -77 /\ DecodeLine(rom_file[i]) = -77
    /\ \E i \in 1..Len(rom_file) :
          Ve[i] = 311 /\ IntPart(Ve[i]) = 77 /\ DecodeLine(rom_file[i]) = 77

\* C8: a successful run leaves exactly 512 lines, line i encoding sample i,
\* each line four lowercase hex digits and a newline.
C8_FileFormat ==
    g_pc = "done" =>
        /\ file_state = "closed"
        /\ Len(rom_file) = 512
        /\ \A i \in 1..Len(rom_file) :
             /\ WellFormedLine(rom_file[i])
             /\ DecodeLine(rom_file[i]) = IntPart(Ve[i])

C8_Witness ==
    /\ g_pc = "done"
    /\ args.square /\ ~args.sin
    /\ Len(rom_file) = 512
    /\ \E i \in 1..512 : IntPart(Ve[i]) < 0 /\ rom_file[i][1] = "f"

\* a run of uart_acquisition.py
Init == UInit /\ GIdle
Next ==
    \/ OpenLink
    \/ PrintBanner
    \/ WriteStart
    \/ Sleep
    \/ WriteRead
    \/ ReadResponse
    \/ CloseLink
    \/ PlotData
    \/ ReportError
Spec == Init /\ [][Next]_vars

\* a run of genrom.py
RomInit == UIdle /\ GInit
RomNext ==
    \/ ParseArgs
    \/ ParamSetup
    \/ SelectWaveform
    \/ InitVectors
    \/ Harmonics
    \/ Compute
    \/ OpenFile
    \/ WriteLine
    \/ CloseFile
SpecRom == RomInit /\ [][RomNext]_vars
====
